---- MODULE Spec2Model ----
(***************************************************************************)
(* Lodge booking dashboard (app.py): one extraction query, a cached        *)
(* loader, boolean-mask filtering and KPI / chart aggregation, re-run      *)
(* top to bottom for every session interaction.                            *)
(***************************************************************************)
EXTENDS Integers, Sequences, FiniteSets, TLC

\* ------------------------------------------------------------------ bounds
MaxRows == 2
MaxTicks == 2
MaxOpen == 2

\* --------------------------------------------------------- program constants
\* @st.cache_data(ttl=600)
TTL == 600
\* DATEADD(minute, ..., '1897-01-01'): minutes in one calendar day
MinutesPerDay == 1440
\* '2023-01-01' counted in days from the epoch '1897-01-01'
CutoverDay == 46020
\* '1970-01-01' counted in days from the epoch '1897-01-01'
UnixDay == 26662
\* .head(10)
TopN == 10

\* pandas None / SQL NULL in a text column of the frame
None == "None"
\* the literal the code shows for an empty frame's top nationality
NA == "N/A"
\* a float is the exact quotient <<numerator, denominator>>; float('nan') is 0/0
NaN == <<0, 0>>

Min(a, b) == IF a <= b THEN a ELSE b

\* ---------------------------------------------------------------- calendar
\* CAST(DATEADD(minute, m, '1897-01-01') AS DATE): the day the minute falls in
DecodeDate(minute) == minute \div MinutesPerDay

\* pd.to_datetime(date column): midnight of that day, a timestamp in minutes
to_datetime(day) == day * MinutesPerDay

\* Series.dt.date: the calendar day of a timestamp
dt_date(ts) == ts \div MinutesPerDay

\* proleptic Gregorian year and month of a day counted from 1897-01-01
CivilYM(day) ==
    LET z    == day - UnixDay + 719468
        era  == z \div 146097
        doe  == z - era * 146097
        yoe  == (doe - doe \div 1460 + doe \div 36524 - doe \div 146096) \div 365
        doy  == doe - (365 * yoe + yoe \div 4 - yoe \div 100)
        mp   == (5 * doy + 2) \div 153
        m    == IF mp < 10 THEN mp + 3 ELSE mp - 9
        y    == yoe + era * 400 + (IF m <= 2 THEN 1 ELSE 0)
    IN  <<y, m>>

\* Series.dt.to_period('M').astype(str): "YYYY-MM", kept as <<year, month>>
to_period_M(ts) == CivilYM(dt_date(ts))

\* ------------------------------------------------------- the extraction query
\* A nullable SQL value is <<>> (NULL) or <<v>>; a joined table alias is <<>>
\* (no row: the null-extended side of a LEFT JOIN) or <<row>>.
Col(alias, f) == IF alias = <<>> THEN <<>> ELSE <<alias[1][f]>>

\* a nullable column of a possibly absent row
ColN(alias, f) == IF alias = <<>> THEN <<>> ELSE alias[1][f]

\* SQL three-valued comparison and conjunction: "T", "F" or "U" (unknown)
Eq3(a, b) == IF a = <<>> \/ b = <<>> THEN "U" ELSE IF a[1] = b[1] THEN "T" ELSE "F"

Ge3(a, b) == IF a = <<>> \/ b = <<>> THEN "U" ELSE IF a[1] >= b[1] THEN "T" ELSE "F"

And3(p, q) == IF p = "F" \/ q = "F" THEN "F" ELSE IF p = "U" \/ q = "U" THEN "U" ELSE "T"

\* the sequences of ss, one after the other
Flatten(ss) ==
    LET f[i \in 0..Len(ss)] == IF i = 0 THEN <<>> ELSE f[i - 1] \o ss[i]
    IN  f[Len(ss)]

\* the joined row e with one more alias bound to v
Extend(e, alias, v) == [a \in DOMAIN e \cup {alias} |-> IF a = alias THEN v ELSE e[a]]

\* the ON condition of the join that introduces alias
On(alias, e) ==
    CASE alias = "C"   -> Eq3(Col(e.B, "guest_clmain"), Col(e.C, "client_clmain"))
      [] alias = "BU"  -> Eq3(ColN(e.B, "id_bkunit"), Col(e.BU, "booking_unit_bkunit"))
      [] alias = "BUT" -> Eq3(Col(e.BU, "unit_type_bkunittp"), Col(e.BUT, "id_bkunittp"))
      [] alias = "D"   -> Eq3(Col(e.BUT, "location_department_bkunittp"),
                              Col(e.D, "department_spdept"))

\* the rows of table that satisfy the ON condition beside e, each joined to e
Matches(e, table, alias) ==
    Flatten([i \in 1..Len(table) |->
               IF On(alias, Extend(e, alias, <<table[i]>>)) = "T"
               THEN <<Extend(e, alias, <<table[i]>>)>> ELSE <<>>])

\* INNER JOIN: one output per matching row, none without a match
InnerJoin(envs, table, alias) ==
    Flatten([i \in 1..Len(envs) |-> Matches(envs[i], table, alias)])

\* LEFT JOIN: as INNER JOIN, but a row without a match is kept once, with the
\* alias null-extended
LeftJoin(envs, table, alias) ==
    Flatten([i \in 1..Len(envs) |->
               IF Matches(envs[i], table, alias) = <<>>
               THEN <<Extend(envs[i], alias, <<>>)>>
               ELSE Matches(envs[i], table, alias)])

\* FROM bkmain B INNER JOIN clmain C LEFT JOIN bkunit BU LEFT JOIN bkunittp BUT
\* LEFT JOIN spdept D
FromClause(d) ==
    LET b0 == [i \in 1..Len(d.bkmain) |-> [B |-> <<d.bkmain[i]>>]]
        j1 == InnerJoin(b0, d.clmain, "C")
        j2 == LeftJoin(j1, d.bkunit, "BU")
        j3 == LeftJoin(j2, d.bkunittp, "BUT")
    IN  LeftJoin(j3, d.spdept, "D")

\* WHERE arrival date >= '2023-01-01' AND C.record_marked_deleted = 0
\*   AND D.record_marked_deleted = 0
WhereClause(e) ==
    And3(And3(Ge3(<<DecodeDate(e.B[1].arrival_minute)>>, <<CutoverDay>>),
              Eq3(Col(e.C, "record_marked_deleted"), <<0>>)),
         Eq3(Col(e.D, "record_marked_deleted"), <<0>>))

\* what the driver hands to pandas for a nullable text value
ToPy(v) == IF v = <<>> THEN None ELSE v[1]

\* the SELECT list
SelectList(e) ==
    [LodgeName     |-> ToPy(Col(e.D, "department_description")),
     LodgeCode     |-> ToPy(Col(e.D, "department_code")),
     BookingRef    |-> e.B[1].booking_reference,
     StatusCode    |-> e.B[1].booking_status,
     ArrivalDate   |-> DecodeDate(e.B[1].arrival_minute),
     DepartureDate |-> DecodeDate(e.B[1].departure_minute),
     DateBooked    |-> DecodeDate(e.B[1].creation_minute),
     TotalAdults   |-> e.B[1].adult_category_1_quantity + e.B[1].adult_category_2_quantity,
     TotalChildren |-> e.B[1].child_category_1_quantity + e.B[1].child_category_2_quantity,
     UnitType      |-> ToPy(Col(e.BUT, "unit_type_description")),
     UnitNumber    |-> ToPy(Col(e.BU, "unit_name")),
     Nationality   |-> ToPy(ColN(e.C, "client_nationality"))]

\* the whole query: the rows of the FROM clause the WHERE clause accepts
Query(d) ==
    LET from == FromClause(d)
    IN  Flatten([i \in 1..Len(from) |->
                   IF WhereClause(from[i]) = "T" THEN <<SelectList(from[i])>> ELSE <<>>])

\* ------------------------------------------------------------------ pandas
\* A frame is [index, columns, rows, Month, base]: the row labels, the column
\* names, the rows as records of the query's columns, the Month column (one
\* entry per row once the column exists), and base: <<>> for a frame that owns
\* its data, <<"df">> for a view whose writes reach the frame it was cut from.
QueryColumns ==
    {"Lodge Name", "Lodge Code", "Booking Ref", "Status Code", "Arrival Date",
     "Departure Date", "Date Booked", "Total Adults", "Total Children",
     "Unit Type", "Unit Number", "Nationality"}

\* pd.read_sql(query, conn): the query's rows under a fresh 0..n-1 index
read_sql(d) ==
    [index   |-> [i \in 1..Len(Query(d)) |-> i - 1],
     columns |-> QueryColumns,
     rows    |-> Query(d),
     Month   |-> <<>>,
     base    |-> <<>>]

\* one row after the column derivations
DeriveRow(r) ==
    [LodgeName     |-> r.LodgeName,
     LodgeCode     |-> r.LodgeCode,
     BookingRef    |-> r.BookingRef,
     StatusCode    |-> r.StatusCode,
     ArrivalDate   |-> to_datetime(r.ArrivalDate),
     DepartureDate |-> r.DepartureDate,
     DateBooked    |-> to_datetime(r.DateBooked),
     TotalAdults   |-> r.TotalAdults,
     TotalChildren |-> r.TotalChildren,
     UnitType      |-> r.UnitType,
     UnitNumber    |-> r.UnitNumber,
     Nationality   |-> r.Nationality,
     TotalGuests   |-> r.TotalAdults + r.TotalChildren]

\* Arrival Date and Date Booked to timestamps, and the Total Guests column
Derive(f) ==
    [index   |-> f.index,
     columns |-> f.columns \cup {"Total Guests"},
     rows    |-> [i \in 1..Len(f.rows) |-> DeriveRow(f.rows[i])],
     Month   |-> f.Month,
     base    |-> f.base]

\* the values of one column, in row order
Column(f, c) == [i \in 1..Len(f.rows) |-> f.rows[i][c]]

\* Series.unique().tolist(): the distinct values in order of first appearance,
\* a missing value among them
unique(col) ==
    LET u[i \in 0..Len(col)] ==
          IF i = 0 THEN <<>>
          ELSE IF \E k \in 1..Len(u[i - 1]) : u[i - 1][k] = col[i]
               THEN u[i - 1] ELSE Append(u[i - 1], col[i])
    IN  u[Len(col)]

\* Series.dropna()
dropna(col) == SelectSeq(col, LAMBDA v : v # None)

\* Series.count(): the values, not the distinct ones
count_rows(col) == Len(dropna(col))

\* Series.nunique(): the distinct values, missing ones not counted
nunique(col) == Len(unique(dropna(col)))

\* Series.sum()
sum(col) ==
    LET t[i \in 0..Len(col)] == IF i = 0 THEN 0 ELSE t[i - 1] + col[i]
    IN  t[Len(col)]

\* Series.mean(): the sum over the count, NaN for an empty series
mean(col) == IF Len(col) = 0 THEN NaN ELSE <<sum(col), Len(col)>>

\* how often v occurs in col
CountOf(col, v) == Len(SelectSeq(col, LAMBDA x : x = v))

\* the nationalities in use, ascending
SortedValues == <<"DE", "NA", "ZA">>

\* Series.mode(): the most frequent non-missing values, ascending; empty when
\* there is none
mode(col) ==
    LET vals  == unique(dropna(col))
        top   == {v \in {vals[k] : k \in 1..Len(vals)} :
                    \A w \in {vals[k] : k \in 1..Len(vals)} : CountOf(col, w) <= CountOf(col, v)}
        asc   == SelectSeq(SortedValues, LAMBDA v : v \in top)
    IN  asc

\* Series.value_counts(): <<value, count>> of the non-missing values, highest
\* count first, equal counts in order of first appearance
value_counts(col) ==
    LET vals == unique(dropna(col))
        n    == Len(vals)
        \* the positions of vals, the most frequent first (stable selection)
        pick[k \in 0..n] ==
          IF k = 0 THEN <<>>
          ELSE LET left == {j \in 1..n : \A q \in 1..Len(pick[k - 1]) : pick[k - 1][q] # j}
                   best == CHOOSE j \in left :
                             \A j2 \in left :
                                \/ CountOf(col, vals[j2]) < CountOf(col, vals[j])
                                \/ CountOf(col, vals[j2]) = CountOf(col, vals[j]) /\ j <= j2
               IN  Append(pick[k - 1], best)
    IN  [k \in 1..n |-> <<vals[pick[n][k]], CountOf(col, vals[pick[n][k]])>>]

\* DataFrame.head(n) of a sequence of entries
head(seq, n) == SubSeq(seq, 1, Min(n, Len(seq)))

\* groupby(key)[value].count().reset_index(): <<key, count of non-missing
\* values>> for each key present, keys ascending
groupby_count(keys, values) ==
    LET ks    == {keys[i] : i \in 1..Len(keys)}
        Ord(k) == k[1] * 12 + k[2]
        cnt(k) == Cardinality({i \in 1..Len(keys) : keys[i] = k /\ values[i] # None})
        asc[j \in 0..Cardinality(ks)] ==
          IF j = 0 THEN <<>>
          ELSE LET left == {k \in ks : \A q \in 1..Len(asc[j - 1]) : asc[j - 1][q][1] # k}
                   least == CHOOSE k \in left : \A k2 \in left : Ord(k) <= Ord(k2)
               IN  Append(asc[j - 1], <<least, cnt(least)>>)
    IN  asc[Cardinality(ks)]

\* pd.to_datetime raises OutOfBoundsDatetime past Timestamp.max (2262-04-11),
\* counted in days from 1897-01-01
TimestampMaxDay == 133413

\* whether lines 60-61 raise on the frame read_sql returned
DeriveRaises(f) ==
    \E i \in 1..Len(f.rows) :
       f.rows[i].ArrivalDate > TimestampMaxDay \/ f.rows[i].DateBooked > TimestampMaxDay

\* ------------------------------------------------------- the script's steps
\* the mask with the end of the date range left out
MaskExclusiveEnd(f, sel) ==
    [i \in 1..Len(f.rows) |->
       /\ dt_date(f.rows[i].ArrivalDate) >= sel.start_date
       /\ dt_date(f.rows[i].ArrivalDate) < sel.end_date
       /\ \E k \in 1..Len(sel.selected_lodges) : sel.selected_lodges[k] = f.rows[i].LodgeName
       /\ \E k \in 1..Len(sel.selected_status) : sel.selected_status[k] = f.rows[i].StatusCode]

\* the boolean mask of the four comparisons, one entry per row of f
Mask(f, sel) ==
    [i \in 1..Len(f.rows) |->
       /\ dt_date(f.rows[i].ArrivalDate) >= sel.start_date
       /\ dt_date(f.rows[i].ArrivalDate) <= sel.end_date
       /\ \E k \in 1..Len(sel.selected_lodges) : sel.selected_lodges[k] = f.rows[i].LodgeName
       /\ \E k \in 1..Len(sel.selected_status) : sel.selected_status[k] = f.rows[i].StatusCode]

\* df.loc[mask] as a view of df
LocBaseView == <<"df">>

\* what df.loc[mask] hands back: a frame of its own (a copy), not a view of df
LocBase == <<>>

\* df.loc[mask]: the rows whose mask entry is true, under their labels of f
loc(f, mask) ==
    LET keep == SelectSeq([i \in 1..Len(f.rows) |-> i], LAMBDA i : mask[i])
    IN  [index   |-> [k \in 1..Len(keep) |-> f.index[keep[k]]],
         columns |-> f.columns,
         rows    |-> [k \in 1..Len(keep) |-> f.rows[keep[k]]],
         Month   |-> <<>>,
         base    |-> LocBase]

\* the Month value of every row of f
MonthOf(f) == [i \in 1..Len(f.rows) |-> to_period_M(f.rows[i].ArrivalDate)]

\* f['Month'] = ...: f with the column set
SetMonth(f) ==
    [index |-> f.index, columns |-> f.columns \cup {"Month"}, rows |-> f.rows,
     Month |-> MonthOf(f), base |-> f.base]

\* what the assignment to a view v does to the frame b it was cut from: the
\* column appears in b, filled at the labels of v and missing elsewhere
WriteThrough(b, v) ==
    [index |-> b.index, columns |-> b.columns \cup {"Month"}, rows |-> b.rows,
     Month |-> [i \in 1..Len(b.rows) |->
                  IF \E k \in 1..Len(v.index) : v.index[k] = b.index[i]
                  THEN to_period_M(b.rows[i].ArrivalDate) ELSE None],
     base  |-> b.base]

\* (Departure Date - Arrival Date).dt.days of every row
StayDays(f) ==
    [i \in 1..Len(f.rows) |->
       (to_datetime(f.rows[i].DepartureDate) - f.rows[i].ArrivalDate) \div MinutesPerDay]

\* filtered_df['Nationality'].mode()[0] if not filtered_df.empty else "N/A":
\* <<"ok", value>>, or <<"raise", error>> when mode() is empty
top_nat(f) ==
    IF Len(f.rows) = 0 THEN <<"ok", NA>>
    ELSE IF mode(Column(f, "Nationality")) = <<>> THEN <<"raise", "KeyError">>
         ELSE <<"ok", mode(Column(f, "Nationality"))[1]>>

\* f"{avg_stay:.1f} Days": the tenths of the quotient, halves to even; "nan"
\* for NaN
FormatAvg(avg) ==
    IF avg = NaN THEN <<"nan", "Days">>
    ELSE LET q == (10 * avg[1]) \div avg[2]
             r == 2 * ((10 * avg[1]) % avg[2])
             t == IF r > avg[2] \/ (r = avg[2] /\ q % 2 = 1) THEN q + 1 ELSE q
         IN  <<"tenths", t, "Days">>

\* the four KPI values and the four metric texts
Kpis(f) ==
    [total_bookings |-> nunique(Column(f, "BookingRef")),
     total_guests   |-> sum(Column(f, "TotalGuests")),
     avg_stay       |-> mean(StayDays(f)),
     top_nat        |-> top_nat(f)[2],
     kpi1           |-> <<"int", nunique(Column(f, "BookingRef"))>>,
     kpi2           |-> <<"int", sum(Column(f, "TotalGuests"))>>,
     kpi3           |-> FormatAvg(mean(StayDays(f))),
     kpi4           |-> <<top_nat(f)[2]>>]

\* the three chart tables
ChartData(f) ==
    [lodge_counts |-> value_counts(Column(f, "LodgeName")),
     nat_counts   |-> head(value_counts(Column(f, "Nationality")), TopN),
     trend_data   |-> groupby_count(MonthOf(f), Column(f, "BookingRef"))]

\* ------------------------------------------------------------ the data in use
\* the browser sessions running the script
Sessions == {"s1", "s2"}

\* clmain: c1 and c2 live (c2 without a nationality), c3 soft-deleted
Clients ==
    << [client_clmain |-> "c1", client_nationality |-> <<"NA">>, record_marked_deleted |-> 0],
       [client_clmain |-> "c2", client_nationality |-> <<>>, record_marked_deleted |-> 0],
       [client_clmain |-> "c3", client_nationality |-> <<"DE">>, record_marked_deleted |-> 1] >>

\* bkunit, bkunittp, spdept: u1 in Sesriem, u2 in Etosha, u3 in the soft-deleted Chobe
Units ==
    << [booking_unit_bkunit |-> "u1", unit_type_bkunittp |-> "t1", unit_name |-> "Room 1"],
       [booking_unit_bkunit |-> "u2", unit_type_bkunittp |-> "t2", unit_name |-> "Room 2"],
       [booking_unit_bkunit |-> "u3", unit_type_bkunittp |-> "t3", unit_name |-> "Room 3"] >>

UnitTypes ==
    << [id_bkunittp |-> "t1", location_department_bkunittp |-> "d1", unit_type_description |-> "Chalet"],
       [id_bkunittp |-> "t2", location_department_bkunittp |-> "d2", unit_type_description |-> "Camp"],
       [id_bkunittp |-> "t3", location_department_bkunittp |-> "d3", unit_type_description |-> "Tent"] >>

Departments ==
    << [department_spdept |-> "d1", department_description |-> "Sesriem",
        department_code |-> "SES", record_marked_deleted |-> 0],
       [department_spdept |-> "d2", department_description |-> "Etosha",
        department_code |-> "ETO", record_marked_deleted |-> 0],
       [department_spdept |-> "d3", department_description |-> "Chobe",
        department_code |-> "CHO", record_marked_deleted |-> 1] >>

\* a bkmain row: arrival at noon of day, a stay of so many days, booked the day before
Booking(ref, status, guest, unit, day, stay) ==
    [booking_reference |-> ref, booking_status |-> status,
     arrival_minute |-> day * MinutesPerDay + 720,
     departure_minute |-> (day + stay) * MinutesPerDay + 600,
     creation_minute |-> (day - 1) * MinutesPerDay,
     adult_category_1_quantity |-> 2, adult_category_2_quantity |-> 1,
     child_category_1_quantity |-> 0, child_category_2_quantity |-> 1,
     guest_clmain |-> guest, id_bkunit |-> unit]

\* a database around the given bkmain rows
Database(bookings) ==
    [bkmain |-> bookings, clmain |-> Clients, bkunit |-> Units,
     bkunittp |-> UnitTypes, spdept |-> Departments]

\* 2023-01-30, 2023-01-31 and 2023-02-01 in days from 1897-01-01
Jan30 == CutoverDay + 29

Jan31 == CutoverDay + 30

Feb01 == CutoverDay + 31

\* the databases the sessions run against: booking B1 on two units; one booking
\* of a guest without nationality; one booking past the timestamp range
DbChoices ==
    { Database(<<Booking("B1", "C", "c1", <<"u1">>, Jan31, 2),
                 Booking("B1", "C", "c1", <<"u2">>, Jan31, 2)>>),
      Database(<<Booking("B2", "X", "c2", <<"u1">>, Feb01, 1)>>),
      Database(<<Booking("B3", "C", "c1", <<"u1">>, TimestampMaxDay + 1, 1)>>) }

\* the bkmain rows the query is examined on: guest live, soft-deleted or
\* missing; unit assigned, unassigned or in a soft-deleted department; arrival
\* before or after the cutover
BookingChoices ==
    { Booking("B1", "C", g, u, d, 1) :
        g \in {"c1", "c3", "c9"}, u \in {<<>>, <<"u1">>, <<"u3">>},
        d \in {CutoverDay - 1, Jan31} }

\* the sequences over S of length 1..n
SeqsUpTo(S, n) == UNION {[1..k -> S] : k \in 1..n}

\* a row of the query's result
Row(lodge, ref, status, day, stay, nat) ==
    [LodgeName |-> lodge, LodgeCode |-> "SES", BookingRef |-> ref, StatusCode |-> status,
     ArrivalDate |-> day, DepartureDate |-> day + stay, DateBooked |-> day - 1,
     TotalAdults |-> 3, TotalChildren |-> 1, UnitType |-> "Chalet",
     UnitNumber |-> "Room 1", Nationality |-> nat]

\* the result rows the filter and the aggregates are examined on
RowChoices ==
    { Row("Sesriem", "B1", "C", Jan31, 2, "NA"),
      Row("Etosha",  "B1", "C", Jan31, 2, "NA"),
      Row("Sesriem", "B2", "X", Feb01, 1, "DE"),
      Row("Etosha",  "B2", "C", Feb01, 3, None),
      Row("Sesriem", "B3", "X", Jan30, 1, None),
      Row("Etosha",  "B3", "X", Jan31, 1, "DE") }

\* the dates the user may pick in the date input
DateChoices == {Jan30, Jan31, Feb01}

\* the subsequence of l at the positions S
Pick(l, S) == SelectSeq(l, LAMBDA v : \E i \in S : l[i] = v)

\* ------------------------------------------------------------------- state
VARIABLES
    database,     \* the tables the query reads
    now,          \* the clock, in seconds
    cache,        \* st.cache_data's entry for load_data(): <<>> or <<[value, stored]>>
    lock,         \* the holder of the cache's compute lock: <<>> or <<session>>
    open_conns,   \* how many connections were opened and not closed since
    picker,       \* how the user handles the widgets: "defaults" or "any"
    pc,           \* where each session's script run stands
    loading,      \* load_data's local df between read_sql and return
    df,           \* the script's df
    selection,    \* start_date, end_date, selected_lodges, selected_status
    filtered_df,  \* the script's filtered_df
    summary,      \* the KPI row
    charts,       \* the chart tables
    screen        \* what the run has put on the page, in order

vars ==
    <<database, now, cache, lock, open_conns, picker, pc, loading,
      df, selection, filtered_df, summary, charts, screen>>

\* the variables only load_data touches
loader == <<cache, lock, open_conns, loading>>

\* the variables only the page below the load touches
page == <<selection, filtered_df, summary, charts>>

\* the variables of the world around the script
world == <<database, now, picker>>

\* a script variable that is not bound (yet)
Unset == <<>>

\* an entry that never expires
FreshForever(e, t) == TRUE

\* an entry is served until it is TTL seconds old
Fresh(e, t) == t - e.stored < TTL

\* whether the cache serves load_data() at time t
CacheHit(t) == cache # <<>> /\ Fresh(cache[1], t)

\* a fill that does not wait for the lock
LockFreeAlways == TRUE

\* the compute lock can be taken
LockFree == lock = <<>>

\* the run goes on after st.error
AfterErrorContinue == "sidebar"

\* st.stop() ends the run
AfterError == "stopped"

\* load_data(): the cache lookup; a hit hands out a copy of the stored frame
CallLoad(s) ==
    /\ pc[s] = "call"
    /\ IF CacheHit(now)
       THEN /\ df' = [df EXCEPT ![s] = cache[1].value]
            /\ pc' = [pc EXCEPT ![s] = "sidebar"]
       ELSE /\ pc' = [pc EXCEPT ![s] = "lock"]
            /\ df' = df
    /\ UNCHANGED <<loader, page, world, screen>>

\* a miss takes the compute lock and looks the cache up again under it:
\* another session may have filled it meanwhile
AcquireLock(s) ==
    /\ pc[s] = "lock"
    /\ LockFree
    /\ IF CacheHit(now)
       THEN /\ df' = [df EXCEPT ![s] = cache[1].value]
            /\ lock' = <<>>
            /\ pc' = [pc EXCEPT ![s] = "sidebar"]
       ELSE /\ lock' = <<s>>
            /\ pc' = [pc EXCEPT ![s] = "connect"]
            /\ df' = df
    /\ UNCHANGED <<cache, open_conns, loading, page, world, screen>>

\* st.secrets[...] and pyodbc.connect(conn_str): a connection, or an exception
\* (no further connection is opened once MaxOpen are open)
Connect(s) ==
    /\ pc[s] = "connect"
    /\ \E ok \in BOOLEAN :
         IF ok /\ open_conns < MaxOpen
         THEN /\ open_conns' = open_conns + 1
              /\ pc' = [pc EXCEPT ![s] = "read_sql"]
              /\ lock' = lock
         ELSE /\ pc' = [pc EXCEPT ![s] = "except"]
              /\ lock' = <<>>
              /\ open_conns' = open_conns
    /\ UNCHANGED <<cache, loading, page, world, df, screen>>

\* pd.read_sql(query, conn) sends the query
StartQuery(s) ==
    /\ pc[s] = "read_sql"
    /\ pc' = [pc EXCEPT ![s] = "querying"]
    /\ UNCHANGED <<loader, page, world, df, screen>>

\* the database answers, or the query fails; nothing closes the connection
EndQuery(s) ==
    /\ pc[s] = "querying"
    /\ \E ok \in BOOLEAN :
         IF ok
         THEN /\ loading' = [loading EXCEPT ![s] = read_sql(database)]
              /\ pc' = [pc EXCEPT ![s] = "derive"]
              /\ lock' = lock
         ELSE /\ pc' = [pc EXCEPT ![s] = "except"]
              /\ lock' = <<>>
              /\ loading' = loading
    /\ UNCHANGED <<cache, open_conns, page, world, df, screen>>

\* the column derivations and the return: the cache stores the frame and the
\* caller gets it; a derivation that raises stores nothing
DeriveReturn(s) ==
    /\ pc[s] = "derive"
    /\ IF DeriveRaises(loading[s])
       THEN /\ pc' = [pc EXCEPT ![s] = "except"]
            /\ UNCHANGED <<cache, df>>
       ELSE /\ cache' = << [value |-> Derive(loading[s]), stored |-> now] >>
            /\ df' = [df EXCEPT ![s] = Derive(loading[s])]
            /\ pc' = [pc EXCEPT ![s] = "sidebar"]
    /\ loading' = [loading EXCEPT ![s] = Unset]
    /\ lock' = <<>>
    /\ UNCHANGED <<open_conns, page, world, screen>>

\* except Exception as e: st.error(...); st.stop()
Except(s) ==
    /\ pc[s] = "except"
    /\ screen' = [screen EXCEPT ![s] = Append(@, "error")]
    /\ pc' = [pc EXCEPT ![s] = AfterError]
    /\ UNCHANGED <<loader, page, world, df>>

\* the selections the user can make in the three widgets
Selections(f) ==
    LET dates      == [i \in 1..Len(f.rows) |-> dt_date(f.rows[i].ArrivalDate)]
        min_date   == CHOOSE d \in {dates[i] : i \in 1..Len(dates)} :
                        \A i \in 1..Len(dates) : d <= dates[i]
        max_date   == CHOOSE d \in {dates[i] : i \in 1..Len(dates)} :
                        \A i \in 1..Len(dates) : d >= dates[i]
        lodge_list == unique(Column(f, "LodgeName"))
        status_list == unique(Column(f, "StatusCode"))
    IN  IF picker = "defaults"
        THEN { [start_date |-> min_date, end_date |-> max_date,
                selected_lodges |-> lodge_list, selected_status |-> status_list] }
        ELSE { [start_date |-> a, end_date |-> b,
                selected_lodges |-> Pick(lodge_list, L),
                selected_status |-> Pick(status_list, S)] :
                  a \in DateChoices, b \in DateChoices,
                  L \in SUBSET (1..Len(lodge_list)), S \in SUBSET (1..Len(status_list)) }

\* the sidebar: date range, lodges and status codes, as the user leaves them
Sidebar(s) ==
    /\ pc[s] = "sidebar"
    /\ \E sel \in Selections(df[s]) :
         /\ sel.start_date <= sel.end_date
         /\ selection' = [selection EXCEPT ![s] = sel]
    /\ screen' = [screen EXCEPT ![s] = Append(@, "sidebar")]
    /\ pc' = [pc EXCEPT ![s] = "filter"]
    /\ UNCHANGED <<loader, world, df, filtered_df, summary, charts>>

\* mask = ...; filtered_df = df.loc[mask]
Filter(s) ==
    /\ pc[s] = "filter"
    /\ filtered_df' = [filtered_df EXCEPT ![s] = loc(df[s], Mask(df[s], selection[s]))]
    /\ pc' = [pc EXCEPT ![s] = "kpi"]
    /\ UNCHANGED <<loader, world, df, selection, summary, charts, screen>>

\* the KPI row; an exception in it ends the run with the traceback on the page
KpiRow(s) ==
    /\ pc[s] = "kpi"
    /\ IF top_nat(filtered_df[s])[1] = "raise"
       THEN /\ screen' = [screen EXCEPT ![s] = Append(@, "traceback")]
            /\ pc' = [pc EXCEPT ![s] = "crashed"]
            /\ summary' = summary
       ELSE /\ summary' = [summary EXCEPT ![s] = Kpis(filtered_df[s])]
            /\ screen' = [screen EXCEPT ![s] = Append(@, "kpis")]
            /\ pc' = [pc EXCEPT ![s] = "charts"]
    /\ UNCHANGED <<loader, world, df, selection, filtered_df, charts>>

\* the three charts, the Month column set on filtered_df, and the data table
Charts(s) ==
    /\ pc[s] = "charts"
    /\ charts' = [charts EXCEPT ![s] = ChartData(filtered_df[s])]
    /\ filtered_df' = [filtered_df EXCEPT ![s] = SetMonth(@)]
    /\ df' = [df EXCEPT ![s] = IF filtered_df[s].base = <<>> THEN @
                               ELSE WriteThrough(@, filtered_df[s])]
    /\ screen' = [screen EXCEPT ![s] = @ \o <<"charts", "table">>]
    /\ pc' = [pc EXCEPT ![s] = "done"]
    /\ UNCHANGED <<loader, world, selection, summary>>

\* a widget interaction runs the script again from the top, all names unbound
Rerun(s) ==
    /\ pc[s] \in {"done", "stopped", "crashed"}
    /\ pc' = [pc EXCEPT ![s] = "call"]
    /\ df' = [df EXCEPT ![s] = Unset]
    /\ selection' = [selection EXCEPT ![s] = Unset]
    /\ filtered_df' = [filtered_df EXCEPT ![s] = Unset]
    /\ summary' = [summary EXCEPT ![s] = Unset]
    /\ charts' = [charts EXCEPT ![s] = Unset]
    /\ screen' = [screen EXCEPT ![s] = <<>>]
    /\ UNCHANGED <<loader, world>>

\* time passes: one second short of the time-to-live, or all of it
Tick ==
    /\ \E d \in {TTL - 1, TTL} :
         /\ now + d <= MaxTicks * TTL
         /\ now' = now + d
    /\ UNCHANGED <<loader, page, database, picker, pc, df, screen>>

\* the booking system changes the tables
DbChange ==
    /\ \E d \in DbChoices :
         /\ d # database
         /\ database' = d
    /\ UNCHANGED <<loader, page, now, picker, pc, df, screen>>

\* the state before any session has run anything
Blank ==
    /\ now = 0
    /\ cache = <<>>
    /\ lock = <<>>
    /\ open_conns = 0
    /\ pc = [s \in Sessions |-> "call"]
    /\ loading = [s \in Sessions |-> Unset]
    /\ df = [s \in Sessions |-> Unset]
    /\ selection = [s \in Sessions |-> Unset]
    /\ filtered_df = [s \in Sessions |-> Unset]
    /\ summary = [s \in Sessions |-> Unset]
    /\ charts = [s \in Sessions |-> Unset]
    /\ screen = [s \in Sessions |-> <<>>]

\* ---- the sessions against the cache
Init ==
    /\ Blank
    /\ database \in DbChoices
    /\ picker = "defaults"

Next ==
    \/ \E s \in Sessions :
         \/ CallLoad(s) \/ AcquireLock(s) \/ Connect(s)
         \/ StartQuery(s) \/ EndQuery(s) \/ DeriveReturn(s) \/ Except(s)
         \/ Sidebar(s) \/ Filter(s) \/ KpiRow(s) \/ Charts(s) \/ Rerun(s)
    \/ Tick
    \/ DbChange

Spec == Init /\ [][Next]_vars

\* ---- one session's page over every small query result and every selection
\* a frame as load_data returns it for the given result rows
Loaded(rows) ==
    Derive([index |-> [i \in 1..Len(rows) |-> i - 1], columns |-> QueryColumns,
            rows |-> rows, Month |-> <<>>, base |-> <<>>])

InitPipeline ==
    /\ \E rows \in SeqsUpTo(RowChoices, MaxRows) :
         /\ cache = << [value |-> Loaded(rows), stored |-> 0] >>
         /\ df = [s \in Sessions |-> IF s = "s1" THEN Loaded(rows) ELSE Unset]
    /\ now = 0
    /\ lock = <<>>
    /\ open_conns = 1
    /\ pc = [s \in Sessions |-> IF s = "s1" THEN "sidebar" ELSE "call"]
    /\ loading = [s \in Sessions |-> Unset]
    /\ selection = [s \in Sessions |-> Unset]
    /\ filtered_df = [s \in Sessions |-> Unset]
    /\ summary = [s \in Sessions |-> Unset]
    /\ charts = [s \in Sessions |-> Unset]
    /\ screen = [s \in Sessions |-> <<>>]
    /\ database = Database(<<>>)   \* the tables since the load: not read again
    /\ picker = "any"

NextPipeline ==
    \E s \in {"s1"} : Sidebar(s) \/ Filter(s) \/ KpiRow(s) \/ Charts(s)

SpecPipeline == InitPipeline /\ [][NextPipeline]_vars

\* ---- one load over every small bkmain table
InitQuery ==
    /\ Blank
    /\ \E b \in SeqsUpTo(BookingChoices, MaxRows) : database = Database(b)
    /\ picker = "defaults"

NextQuery ==
    \E s \in {"s1"} :
       \/ CallLoad(s) \/ AcquireLock(s) \/ Connect(s) \/ StartQuery(s)
       \/ EndQuery(s) \/ DeriveReturn(s) \/ Except(s)

SpecQuery == InitQuery /\ [][NextQuery]_vars

\* ------------------------------------------------------------------ claims
\* the sessions inside load_data with the connection in hand
InLoad == {s \in Sessions : pc[s] \in {"read_sql", "querying", "derive"}}

\* the positions of f's rows that pass the selection sel
Passing(f, sel) ==
    {i \in 1..Len(f.rows) :
       /\ sel.start_date <= f.rows[i].ArrivalDate \div MinutesPerDay
       /\ f.rows[i].ArrivalDate \div MinutesPerDay <= sel.end_date
       /\ f.rows[i].LodgeName \in {sel.selected_lodges[k] : k \in 1..Len(sel.selected_lodges)}
       /\ f.rows[i].StatusCode \in {sel.selected_status[k] : k \in 1..Len(sel.selected_status)}}

\* C1: the filtered frame holds exactly the rows of df whose arrival date lies
\* in [start, end], both ends included, whose lodge is selected and whose
\* status is selected: each such row once, under its label, and no other row.
C1_FilterExact ==
    \A s \in Sessions :
       pc[s] \in {"kpi", "charts", "done", "crashed"} =>
          LET f == df[s]
              g == filtered_df[s]
              P == Passing(f, selection[s])
          IN  /\ Len(g.rows) = Cardinality(P)
              /\ \A i \in 1..Len(f.rows) :
                    i \in P <=> \E k \in 1..Len(g.rows) :
                                   g.index[k] = f.index[i] /\ g.rows[k] = f.rows[i]

\* C1 witness: a row arriving on the end date is in, a row arriving the day
\* after, of a selected lodge and status, is out
C1_Witness ==
    \E s \in Sessions :
       /\ pc[s] = "kpi"
       /\ \E i, j \in 1..Len(df[s].rows) :
            /\ dt_date(df[s].rows[i].ArrivalDate) = selection[s].end_date
            /\ dt_date(df[s].rows[j].ArrivalDate) = selection[s].end_date + 1
            /\ \E k \in 1..Len(filtered_df[s].rows) : filtered_df[s].index[k] = df[s].index[i]
            /\ \A k \in 1..Len(filtered_df[s].rows) : filtered_df[s].index[k] # df[s].index[j]
            /\ df[s].rows[j].LodgeName = df[s].rows[i].LodgeName
            /\ df[s].rows[j].StatusCode = df[s].rows[i].StatusCode

\* C9: total_bookings is the number of distinct booking references among the
\* filtered rows, not the number of rows.
C9_DistinctBookings ==
    \A s \in Sessions :
       summary[s] # Unset =>
          summary[s].total_bookings =
             Cardinality({filtered_df[s].rows[i].BookingRef : i \in 1..Len(filtered_df[s].rows)})

\* C9 witness: two filtered rows of one booking, counted once
C9_Witness ==
    \E s \in Sessions :
       /\ summary[s] # Unset
       /\ Len(filtered_df[s].rows) = 2
       /\ filtered_df[s].rows[1].BookingRef = filtered_df[s].rows[2].BookingRef
       /\ summary[s].total_bookings = 1

\* C5: on an empty filtered frame the summary does not raise and shows 0
\* bookings, 0 guests, "not available" for the average stay and for the top
\* nationality, and three empty chart tables.
C5_EmptySummary ==
    \A s \in Sessions :
       (pc[s] \in {"charts", "done", "crashed"} /\ Len(filtered_df[s].rows) = 0) =>
          /\ pc[s] # "crashed"
          /\ summary[s].total_bookings = 0
          /\ summary[s].total_guests = 0
          /\ summary[s].kpi3 = <<NA>>
          /\ summary[s].kpi4 = <<NA>>
          /\ pc[s] = "done" =>
                /\ charts[s].lodge_counts = <<>>
                /\ charts[s].nat_counts = <<>>
                /\ charts[s].trend_data = <<>>

\* C10: the summary never raises, whatever the filtered frame: also when it is
\* not empty and no row has a nationality.
C10_SummaryNeverRaises ==
    \A s \in Sessions : pc[s] # "crashed"

\* C6: a booking of a live guest, arriving on or after 2023-01-01, without a
\* unit assignment, is in the loaded frame with lodge name, lodge code, unit
\* type and unit number missing.
C6_UnassignedBookingKept ==
    \A s \in Sessions :
       pc[s] = "sidebar" =>
          \A i \in 1..Len(database.bkmain) :
             LET b == database.bkmain[i]
             IN  ( /\ b.id_bkunit = <<>>
                   /\ b.arrival_minute \div MinutesPerDay >= CutoverDay
                   /\ \E k \in 1..Len(database.clmain) :
                        /\ database.clmain[k].client_clmain = b.guest_clmain
                        /\ database.clmain[k].record_marked_deleted = 0 )
                 => \E r \in 1..Len(df[s].rows) :
                       /\ df[s].rows[r].BookingRef = b.booking_reference
                       /\ df[s].rows[r].LodgeName = None
                       /\ df[s].rows[r].LodgeCode = None
                       /\ df[s].rows[r].UnitType = None
                       /\ df[s].rows[r].UnitNumber = None

\* C3: every connection load_data opens is closed when load_data ends, on
\* return and on failure: the open connections are those of the sessions
\* still inside it.
C3_ConnectionsClosed ==
    open_conns = Cardinality(InLoad)

\* C4: a failed load is caught, the error message is all the run puts on the
\* page, and the run stops: no widget, KPI, chart or table follows, and no
\* dataset, stale or partial, is bound.
C4_ErrorHalts ==
    \A s \in Sessions :
       /\ pc[s] = "except" => (df[s] = Unset /\ screen[s] = <<>>)
       /\ (\E k \in 1..Len(screen[s]) : screen[s][k] = "error") =>
             /\ pc[s] = "stopped"
             /\ screen[s] = <<"error">>
             /\ df[s] = Unset
             /\ filtered_df[s] = Unset
             /\ summary[s] = Unset
             /\ charts[s] = Unset
       /\ pc[s] = "stopped" => screen[s] = <<"error">>

\* C4 witness: a run stopped on the error while the cache still holds an
\* earlier, expired dataset
C4_Witness ==
    \E s \in Sessions :
       /\ pc[s] = "stopped"
       /\ cache # <<>>
       /\ now - cache[1].stored >= TTL

\* C2: a call less than 600 seconds after the last successful load is served
\* the cached frame and sends no query; a call at or after the expiry goes to
\* the fill path and queries; a failed load leaves the cache as it was, and
\* only a successful load writes it.
C2_CacheWindow ==
    [][ \A s \in Sessions :
          /\ (pc[s] \in {"call", "lock"} /\ pc'[s] # pc[s]) =>
                IF cache # <<>> /\ now - cache[1].stored < TTL
                THEN pc'[s] = "sidebar" /\ df'[s] = cache[1].value /\ cache' = cache
                ELSE pc'[s] = (IF pc[s] = "call" THEN "lock" ELSE "connect") /\ cache' = cache
          /\ (pc'[s] = "except" /\ pc[s] # "except") => cache' = cache
          /\ (pc[s] = "derive" /\ pc'[s] = "sidebar") =>
                cache' = << [value |-> df'[s], stored |-> now] >>
          /\ cache' # cache => \E t \in Sessions : pc[t] = "derive" /\ pc'[t] = "sidebar"
      ]_vars

\* C2 witness: after the expiry a new load has replaced the entry, while a
\* page still shows the frame of the load before
C2_Witness ==
    /\ cache # <<>>
    /\ cache[1].stored >= TTL
    /\ \E s \in Sessions : df[s] # Unset /\ df[s] # cache[1].value

C8_DatasetUntouched ==
    [][ \A s \in Sessions :
          /\ pc[s] \in {"sidebar", "filter", "kpi", "charts"} => df'[s] = df[s]
          /\ (pc[s] \in {"sidebar", "filter", "kpi", "charts"} /\ pc'[s] # pc[s]) =>
                cache' = cache
      ]_vars

\* C8 witness: the Month column is on filtered_df and not on df, which is
\* still the cached frame
C8_Witness ==
    \E s \in Sessions :
       /\ pc[s] = "done"
       /\ "Month" \in filtered_df[s].columns
       /\ Len(filtered_df[s].rows) > 0
       /\ cache # <<>>
       /\ df[s] = cache[1].value

====
